---------------------------- MODULE Spec2Model ----------------------------
(***************************************************************************)
(* A model of tools/generate_app_icon.py: the command-line entry point,    *)
(* generate_icons (manifest read, size resolution, de-duplication, file    *)
(* naming, save, manifest write-back) and render_icon (the fixed layer     *)
(* stack), together with the per-pixel alpha-over operator that            *)
(* Image.alpha_composite applies.                                          *)
(*                                                                         *)
(* Python values are represented as follows.                               *)
(*   str tokens that the code parses  : sequences of one-character strings *)
(*   dict                             : sequence of <<key, value>> pairs   *)
(*                                      with unique keys, insertion order  *)
(*   JSON object text on disk         : sequence of <<key, value>> pairs,  *)
(*                                      duplicate keys possible            *)
(*   float                            : [kind, num, den] with value        *)
(*                                      num/den, or nan / inf              *)
(*   file names                       : sequences of characters as well    *)
(***************************************************************************)
EXTENDS Integers, Sequences, FiniteSets, TLC

VARIABLES
    selector,        \* the --variant argument given on the command line
    variant,         \* args.variant / the parameter of generate_icons
    pc,              \* position in the script
    cause,           \* why the run stopped early ("" while it has not)
    disk,            \* Contents.json on disk: [style, doc]
    as_read,         \* what the run read: [text |-> the file, doc |-> json.load's result]
    contents,        \* the dict held by generate_icons
    output_dir,      \* output_dir of generate_icons
    dirs,            \* directories the run created (mkdir calls)
    idx,             \* index of the current image_entry, 1-based
    point_size,      \* local of the loop body
    scale_factor,    \* local of the loop body
    pixel_size,      \* local of the loop body
    filename,        \* local of the loop body
    processed_sizes, \* set of pixel sizes seen
    image,           \* render_icon's running base: the layers composited
    renders,         \* every image render_icon returned, in call order
    files,           \* files present in the output directories
    save_log,        \* names passed to a completed icon_image.save, in order
    c_rand,          \* number of C rand() calls the process has made
    py_random,       \* draws from Python's random since the last seed(42)
    dst,             \* one pixel of a base canvas
    src_a,           \* the same pixel of the layer composited first
    src_b,           \* the same pixel of the layer composited second
    out_fixed,       \* the pixel after compositing src_a, then src_b
    out_swapped,     \* the pixel after compositing src_b, then src_a
    composited,      \* which of the two orders have been computed
    pair             \* the two layers of the stack the pixels belong to

vars == <<selector, variant, pc, cause, disk, as_read, contents, output_dir,
          dirs, idx, point_size, scale_factor, pixel_size, filename,
          processed_sizes, image, renders, files, save_log, c_rand, py_random,
          dst, src_a, src_b, out_fixed, out_swapped, composited, pair>>

run_vars == <<selector, variant, pc, cause, disk, as_read, contents, output_dir,
              dirs, idx, point_size, scale_factor, pixel_size, filename,
              processed_sizes, image, renders, files, save_log, c_rand, py_random>>

pixel_vars == <<dst, src_a, src_b, out_fixed, out_swapped, composited, pair>>

-----------------------------------------------------------------------------
(* Bounds of the model *)

\* longest "images" list of a manifest
MaxEntries == 2

-----------------------------------------------------------------------------
(* Python dict and JSON object helpers *)

Keys(d) == {d[i][1] : i \in DOMAIN d}

\* dict.get(key, default)
Get(d, k, default) ==
    IF k \in Keys(d)
    THEN d[CHOOSE i \in DOMAIN d : d[i][1] = k][2]
    ELSE default

\* d[key] = value: replaces in place, or appends a new key at the end
Put(d, k, v) ==
    IF k \in Keys(d)
    THEN [i \in DOMAIN d |-> IF d[i][1] = k THEN <<k, v>> ELSE d[i]]
    ELSE Append(d, <<k, v>>)

\* json.load of one object: pairs are inserted left to right, so the last
\* duplicate of a key wins and keeps the first one's position
RECURSIVE LoadObject(_)
LoadObject(pairs) ==
    IF pairs = <<>> THEN <<>>
    ELSE LET n == Len(pairs)
         IN Put(LoadObject(SubSeq(pairs, 1, n - 1)), pairs[n][1], pairs[n][2])

\* json.load of the manifest text: the top-level object, and each element of
\* its "images" array when there is one
json_load(text) ==
    LET top == LoadObject(text.doc)
    IN IF "images" \in Keys(top)
       THEN Put(top, "images",
                [i \in DOMAIN Get(top, "images", <<>>) |->
                    LoadObject(Get(top, "images", <<>>)[i])])
       ELSE top

\* json.dump(contents, handle, indent=2) followed by the newline
json_dump(d) == [style |-> "indent2", doc |-> d]

-----------------------------------------------------------------------------
(* str.split, str.replace, float(), int(), round() *)

Digits == {"0", "1", "2", "3", "4", "5", "6", "7", "8", "9"}

DigitVal(c) ==
    CASE c = "0" -> 0 [] c = "1" -> 1 [] c = "2" -> 2 [] c = "3" -> 3
      [] c = "4" -> 4 [] c = "5" -> 5 [] c = "6" -> 6 [] c = "7" -> 7
      [] c = "8" -> 8 [] c = "9" -> 9

IsDigits(s) == \A i \in DOMAIN s : s[i] \in Digits

RECURSIVE DecimalVal(_)
DecimalVal(s) ==
    IF s = <<>> THEN 0
    ELSE 10 * DecimalVal(SubSeq(s, 1, Len(s) - 1)) + DigitVal(s[Len(s)])

RECURSIVE Pow10(_)
Pow10(n) == IF n = 0 THEN 1 ELSE 10 * Pow10(n - 1)

\* s.split("x")[0]: the text before the first "x"
RECURSIVE SplitHead(_)
SplitHead(s) ==
    IF s = <<>> \/ Head(s) = "x" THEN <<>>
    ELSE <<Head(s)>> \o SplitHead(Tail(s))

\* s.replace("x", "")
RemoveX(s) == SelectSeq(s, LAMBDA c : c # "x")

Finite(n, d) == [err |-> FALSE, kind |-> "finite", num |-> n, den |-> d]
NonFinite(k) == [err |-> FALSE, kind |-> k, num |-> 0, den |-> 1]
ValueError   == [err |-> TRUE, kind |-> "error", num |-> 0, den |-> 1]

\* float(token) for tokens over digits, sign, ".", and letters: an optional
\* sign, then "nan", "inf", or digits with an optional fraction; anything
\* else raises ValueError
float(tok) ==
    LET signed == tok # <<>> /\ Head(tok) \in {"-", "+"}
        neg    == signed /\ Head(tok) = "-"
        body   == IF signed THEN Tail(tok) ELSE tok
        dots   == {i \in DOMAIN body : body[i] = "."}
        dot    == IF dots = {} THEN 0 ELSE CHOOSE i \in dots : \A j \in dots : i <= j
        ip     == IF dot = 0 THEN body ELSE SubSeq(body, 1, dot - 1)
        fp     == IF dot = 0 THEN <<>> ELSE SubSeq(body, dot + 1, Len(body))
        mag    == DecimalVal(ip \o fp)
    IN IF body = <<"n", "a", "n">> THEN NonFinite("nan")
       ELSE IF body = <<"i", "n", "f">> THEN NonFinite("inf")
       ELSE IF IsDigits(ip) /\ IsDigits(fp) /\ Len(ip) + Len(fp) > 0
            THEN Finite(IF neg THEN -mag ELSE mag, Pow10(Len(fp)))
       ELSE ValueError

\* int(token): an optional sign and at least one digit, else ValueError
int(tok) ==
    LET signed == tok # <<>> /\ Head(tok) \in {"-", "+"}
        neg    == signed /\ Head(tok) = "-"
        body   == IF signed THEN Tail(tok) ELSE tok
    IN IF body # <<>> /\ IsDigits(body)
       THEN [err |-> FALSE, val |-> IF neg THEN -DecimalVal(body) ELSE DecimalVal(body)]
       ELSE [err |-> TRUE, val |-> 0]

\* floor(n / d) for d > 0
FloorDiv(n, d) == IF n >= 0 THEN n \div d ELSE -((-n + d - 1) \div d)

\* round(n / d) as Python rounds a float: to nearest, ties to even
round(n, d) ==
    LET q == FloorDiv(n, d)
        r == n - q * d
    IN IF 2 * r < d THEN q
       ELSE IF 2 * r > d THEN q + 1
       ELSE IF q % 2 = 0 THEN q ELSE q + 1

max(a, b) == IF a >= b THEN a ELSE b


DigitChar(d) ==
    CASE d = 0 -> "0" [] d = 1 -> "1" [] d = 2 -> "2" [] d = 3 -> "3"
      [] d = 4 -> "4" [] d = 5 -> "5" [] d = 6 -> "6" [] d = 7 -> "7"
      [] d = 8 -> "8" [] d = 9 -> "9"

\* str(n) as f"{n}" formats an int
RECURSIVE IntStr(_)
IntStr(n) ==
    IF n < 0 THEN <<"-">> \o IntStr(-n)
    ELSE IF n < 10 THEN <<DigitChar(n)>>
    ELSE IntStr(n \div 10) \o <<DigitChar(n % 10)>>

-----------------------------------------------------------------------------
(* generate_icons: the per-entry computations *)

ASSET_DIR == "PodcastAssistant/Assets.xcassets/AppIcon.appiconset"
DOCS_DIR  == "docs/AppIconTransparent"

\* contents.get("images", [])
Images(c) == Get(c, "images", <<>>)

\* image_entry.get("size", "0x0").split("x")[0]
SizeToken(image_entry) == SplitHead(Get(image_entry, "size", <<"0", "x", "0">>))

\* image_entry.get("scale", "1x").replace("x", "")
ScaleToken(image_entry) == RemoveX(Get(image_entry, "scale", <<"1", "x">>))

\* ParsePointSize without its except clause: the ValueError propagates
ParsePointSizeUncaught(size_token) == float(size_token)

\* try: point_size = float(size_token)   except ValueError: point_size = 0.0
ParsePointSize(size_token) ==
    IF float(size_token).err THEN Finite(0, 1) ELSE float(size_token)

\* try: scale_factor = int(scale)   except ValueError: scale_factor = 1
ParseScaleFactor(scale) ==
    IF int(scale).err THEN [err |-> FALSE, val |-> 1] ELSE int(scale)

\* PixelSize without the max(1, ...) clamp
PixelSizeUnclamped(ps, sf) == round(ps.num * sf, ps.den)

\* pixel_size = int(round(point_size * scale_factor)); pixel_size = max(1, pixel_size)
PixelSize(ps, sf) == max(1, round(ps.num * sf, ps.den))

\* SkipEntry applied to every variant
SkipEntryEveryVariant(v, px, processed) == px \in processed

\* SkipEntry that never skips
SkipEntryNever(v, px, processed) == FALSE

\* if variant == "transparent" and pixel_size in processed_sizes: continue
SkipEntry(v, px, processed) == v = "transparent" /\ px \in processed

\* f"appicon-{pixel_size}.png" / f"appicon-transparent-{pixel_size}.png"
FileName(v, px) ==
    IF v = "normal"
    THEN <<"a", "p", "p", "i", "c", "o", "n", "-">> \o IntStr(px)
            \o <<".", "p", "n", "g">>
    ELSE <<"a", "p", "p", "i", "c", "o", "n", "-",
           "t", "r", "a", "n", "s", "p", "a", "r", "e", "n", "t", "-">>
            \o IntStr(px) \o <<".", "p", "n", "g">>

\* Annotate that replaces the entry by one holding only the file name
AnnotateReplacingEntry(c, i, v, name) ==
    IF v = "normal"
    THEN Put(c, "images",
             [j \in DOMAIN Get(c, "images", <<>>) |->
                 IF j = i THEN <<<<"filename", name>>>>
                 ELSE Get(c, "images", <<>>)[j]])
    ELSE c

\* image_entry["filename"] = filename, in the normal variant only
Annotate(c, i, v, name) ==
    IF v = "normal"
    THEN Put(c, "images",
             [j \in DOMAIN Images(c) |->
                 IF j = i THEN Put(Images(c)[j], "filename", name)
                 ELSE Images(c)[j]])
    ELSE c

-----------------------------------------------------------------------------
(* Manifests the run may find on disk *)

Mac == <<"m", "a", "c">>

Entry(size, scale) == <<<<"size", size>>, <<"scale", scale>>, <<"idiom", Mac>>>>

EntryPool ==
    { Entry(<<"1", "6", "x", "1", "6">>, <<"1", "x">>),            \* 16 px
      Entry(<<"1", "6", "x", "1", "6">>, <<"2", "x">>),            \* 32 px
      Entry(<<"3", "2", "x", "3", "2">>, <<"1", "x">>)             \* 32 px,
         \o <<<<"filename", <<"o", "l", "d", ".", "p", "n", "g">>>>>>,  \* annotated before
      Entry(<<"b", "a", "d", "x", "0">>, <<"1", "x">>),            \* size not a number
      Entry(<<"1", "6", "x", "1", "6">>, <<"1", ".", "5", "x">>),  \* scale not an int
      Entry(<<"0", ".", "5", "x", "0", ".", "5">>, <<"1", "x">>),  \* 0.5 -> 0 -> 1
      Entry(<<"2", ".", "5", "x", "2", ".", "5">>, <<"1", "x">>),  \* 2.5 -> 2
      Entry(<<"1", ".", "5", "x", "1", ".", "5">>, <<"1", "x">>),  \* 1.5 -> 2
      Entry(<<"1", "6", "x", "1", "6">>, <<"-", "1", "x">>),       \* negative product
      Entry(<<"n", "a", "n", "x", "n", "a", "n">>, <<"1", "x">>),  \* float("nan")
      <<<<"scale", <<"2", "x">>>>>>,                               \* no "size" key
      <<<<"size", <<"1", "6", "x", "1", "6">>>>,                   \* duplicate key
        <<"scale", <<"1", "x">>>>, <<"scale", <<"2", "x">>>>>> }

Info == <<<<"author", <<"x", "c", "o", "d", "e">>>>, <<"version", <<"1">>>>>>

ManifestText(entries) ==
    [style |-> "xcode", doc |-> <<<<"images", entries>>, <<"info", Info>>>>]

Manifests ==
    { ManifestText(es) : es \in UNION {[1..n -> EntryPool] : n \in 0..MaxEntries} }
    \cup { [style |-> "xcode", doc |-> <<<<"info", Info>>>>] }

NotGiven == "(not given)"
Selectors == {NotGiven, "normal", "transparent", "template"}

\* ParseArgs without the choices check
ParseArgsAnyValue(sel) ==
    [ok |-> TRUE, variant |-> IF sel = NotGiven THEN "normal" ELSE sel]

\* argparse: --variant, choices=("normal", "transparent"), default="normal"
ParseArgs(sel) ==
    IF sel = NotGiven THEN [ok |-> TRUE, variant |-> "normal"]
    ELSE IF sel \in {"normal", "transparent"} THEN [ok |-> TRUE, variant |-> sel]
    ELSE [ok |-> FALSE, variant |-> sel]

-----------------------------------------------------------------------------
(* Image.alpha_composite on one pixel *)

RGBA(r, g, b, a) == [r |-> r, g |-> g, b |-> b, a |-> a]

Transparent == RGBA(0, 0, 0, 0)

\* x >> n
Shr(x, n) == x \div (2 ^ n)

\* ((x >> 8) + x) >> 8, the library's division by 255
ShiftForDiv255(x) == Shr(Shr(x, 8) + x, 8)

\* the library's fixed-point blend of one channel, 7 bits of precision
BlendChannel(s, d, coef1, coef2) ==
    Shr(ShiftForDiv255(s * coef1 + d * coef2 + 128 * 128), 7)

\* alpha_composite with the two images exchanged: base over layer
alpha_composite_under(d, s) ==
    IF d.a = 0 THEN s
    ELSE LET blend   == s.a * (255 - d.a)
             outa255 == d.a * 255 + blend
             coef1   == (d.a * 255 * 255 * 128) \div outa255
             coef2   == 255 * 128 - coef1
         IN RGBA(BlendChannel(d.r, s.r, coef1, coef2),
                 BlendChannel(d.g, s.g, coef1, coef2),
                 BlendChannel(d.b, s.b, coef1, coef2),
                 ShiftForDiv255(outa255 + 128))

\* Image.alpha_composite(base, layer) at one pixel: layer (src) over base (dst)
alpha_composite(d, s) ==
    IF s.a = 0 THEN d
    ELSE LET blend   == d.a * (255 - s.a)
             outa255 == s.a * 255 + blend
             coef1   == (s.a * 255 * 255 * 128) \div outa255
             coef2   == 255 * 128 - coef1
         IN RGBA(BlendChannel(s.r, d.r, coef1, coef2),
                 BlendChannel(s.g, d.g, coef1, coef2),
                 BlendChannel(s.b, d.b, coef1, coef2),
                 ShiftForDiv255(outa255 + 128))

\* pixels a base canvas holds before the first layer: the fill colour of
\* either variant and the two ends of the gradient
BasePixels ==
    { RGBA(26, 32, 88, 255), Transparent,
      RGBA(134, 102, 255, 255), RGBA(35, 43, 96, 255) }

\* the layers render_icon composites with Image.alpha_composite, in the
\* order of its calls
Stack == <<"glow", "planet", "orbit", "signal", "sparkle", "noise">>

\* pixels a layer can hold: the fill colours of its drawing calls (for the
\* sparkle field a star at either end of its opacity range, for the noise
\* two grey levels of the scaled field) and an untouched pixel
LayerPixels(name) ==
    {Transparent} \cup
    CASE name = "glow"    -> { RGBA(178, 186, 255, 90), RGBA(178, 186, 255, 140) }
      [] name = "planet"  -> { RGBA(60, 74, 170, 210), RGBA(220, 230, 255, 150) }
      [] name = "orbit"   -> { RGBA(170, 192, 255, 190), RGBA(126, 148, 255, 170),
                               RGBA(86, 106, 242, 150) }
      [] name = "signal"  -> { RGBA(255, 255, 255, 200), RGBA(246, 248, 255, 255),
                               RGBA(224, 228, 255, 255), RGBA(86, 102, 238, 245),
                               RGBA(255, 255, 255, 96) }
      [] name = "sparkle" -> { RGBA(255, 255, 255, 60), RGBA(255, 255, 255, 140) }
      [] name = "noise"   -> { RGBA(7, 7, 7, 7), RGBA(15, 15, 15, 15) }

-----------------------------------------------------------------------------
(* State machine *)

NoFloat == Finite(0, 1)

NothingRead == [text |-> [style |-> "", doc |-> <<>>], doc |-> <<>>]

Init ==
    /\ selector \in Selectors
    /\ disk \in Manifests
    /\ variant = ""
    /\ pc = "main"
    /\ cause = ""
    /\ as_read = NothingRead
    /\ contents = <<>>
    /\ output_dir = ""
    /\ dirs = {}
    /\ idx = 0
    /\ point_size = NoFloat
    /\ scale_factor = 0
    /\ pixel_size = 0
    /\ filename = <<>>
    /\ processed_sizes = {}
    /\ image = <<>>
    /\ renders = <<>>
    /\ files = {}
    /\ save_log = <<>>
    /\ c_rand = 0
    /\ py_random = 0
    /\ dst = Transparent
    /\ src_a = Transparent
    /\ src_b = Transparent
    /\ out_fixed = Transparent
    /\ out_swapped = Transparent
    /\ composited = {}
    /\ pair = <<"", "">>

Abort(why) == pc' = "aborted" /\ cause' = why

\* __main__: parse_args, then ASSET_DIR.mkdir for the normal variant, then
\* the call of generate_icons
Main ==
    /\ pc = "main"
    /\ LET args == ParseArgs(selector)
       IN IF args.ok
          THEN /\ variant' = args.variant
               /\ dirs' = IF args.variant = "normal" THEN {ASSET_DIR} ELSE {}
               /\ pc' = "load"
               /\ cause' = cause
          ELSE /\ pc' = "exit"
               /\ cause' = "argparse"
               /\ UNCHANGED <<variant, dirs>>
    /\ UNCHANGED <<selector, disk, as_read, contents, output_dir, idx, point_size,
                   scale_factor, pixel_size, filename, processed_sizes, image,
                   renders, files, save_log, c_rand, py_random>>
    /\ UNCHANGED pixel_vars

\* with open(CONTENTS_PATH, "r") as handle: contents = json.load(handle)
LoadContents ==
    /\ pc = "load"
    /\ contents' = json_load(disk)
    /\ as_read' = [text |-> disk, doc |-> json_load(disk)]
    /\ pc' = "mkdir"
    /\ UNCHANGED <<selector, variant, cause, disk, output_dir, dirs, idx, point_size,
                   scale_factor, pixel_size, filename, processed_sizes, image,
                   renders, files, save_log, c_rand, py_random>>
    /\ UNCHANGED pixel_vars

\* open() or json.load raises: the exception leaves generate_icons
LoadFails ==
    /\ pc = "load"
    /\ Abort("load")
    /\ UNCHANGED <<selector, variant, disk, as_read, contents, output_dir, dirs, idx,
                   point_size, scale_factor, pixel_size, filename, processed_sizes,
                   image, renders, files, save_log, c_rand, py_random>>
    /\ UNCHANGED pixel_vars

\* output_dir = ...; output_dir.mkdir(parents=True, exist_ok=True);
\* processed_sizes = set(); the for loop starts
MakeOutputDir ==
    /\ pc = "mkdir"
    /\ output_dir' = IF variant = "normal" THEN ASSET_DIR ELSE DOCS_DIR
    /\ dirs' = dirs \cup {output_dir'}
    /\ processed_sizes' = {}
    /\ idx' = 1
    /\ pc' = "loop"
    /\ UNCHANGED <<selector, variant, cause, disk, as_read, contents, point_size,
                   scale_factor, pixel_size, filename, image, renders, files,
                   save_log, c_rand, py_random>>
    /\ UNCHANGED pixel_vars

\* mkdir raises
MkdirFails ==
    /\ pc = "mkdir"
    /\ output_dir' = IF variant = "normal" THEN ASSET_DIR ELSE DOCS_DIR
    /\ Abort("mkdir")
    /\ UNCHANGED <<selector, variant, disk, as_read, contents, dirs, idx, point_size,
                   scale_factor, pixel_size, filename, processed_sizes, image,
                   renders, files, save_log, c_rand, py_random>>
    /\ UNCHANGED pixel_vars

\* the loop body up to pixel_size = max(1, pixel_size).  A ValueError that a
\* try block does not catch, and the ValueError / OverflowError that round()
\* raises for nan / inf, leave generate_icons
ResolveSize ==
    /\ pc = "loop"
    /\ idx <= Len(Images(contents))
    /\ LET image_entry == Images(contents)[idx]
           ps == ParsePointSize(SizeToken(image_entry))
           sf == ParseScaleFactor(ScaleToken(image_entry))
       IN IF ps.err \/ sf.err
          THEN /\ Abort("parse")
               /\ UNCHANGED <<point_size, scale_factor, pixel_size>>
          ELSE IF ps.kind # "finite"
          THEN /\ Abort("round")
               /\ point_size' = ps
               /\ scale_factor' = sf.val
               /\ UNCHANGED pixel_size
          ELSE /\ point_size' = ps
               /\ scale_factor' = sf.val
               /\ pixel_size' = PixelSize(ps, sf.val)
               /\ pc' = "name"
               /\ cause' = cause
    /\ UNCHANGED <<selector, variant, disk, as_read, contents, output_dir, dirs, idx,
                   filename, processed_sizes, image, renders, files, save_log,
                   c_rand, py_random>>
    /\ UNCHANGED pixel_vars

\* the de-duplication test, processed_sizes.add, the file name and, in the
\* normal variant, image_entry["filename"] = filename
NameFile ==
    /\ pc = "name"
    /\ IF SkipEntry(variant, pixel_size, processed_sizes)
       THEN /\ idx' = idx + 1
            /\ pc' = "loop"
            /\ UNCHANGED <<processed_sizes, filename, contents>>
       ELSE /\ processed_sizes' = processed_sizes \cup {pixel_size}
            /\ filename' = FileName(variant, pixel_size)
            /\ contents' = Annotate(contents, idx, variant, filename')
            /\ pc' = "r_base"
            /\ idx' = idx
    /\ UNCHANGED <<selector, variant, cause, disk, as_read, output_dir, dirs,
                   point_size, scale_factor, pixel_size, image, renders, files,
                   save_log, c_rand, py_random>>
    /\ UNCHANGED pixel_vars

-----------------------------------------------------------------------------
(* render_icon(pixel_size, variant): one action per compositing step.  The  *)
(* image is the sequence of the layers composited onto the base so far;     *)
(* a layer is its name, the drawing and filter calls that built it, and     *)
(* the one number its pixels depend on besides the size.                    *)

Layer(name, draws, arg) == [layer |-> name, draws |-> draws, arg |-> arg]

\* base_color, Image.new, and for "normal" _draw_vertical_gradient
BaseCanvas(v) ==
    IF v = "normal"
    THEN Layer("base", <<"new", "vertical_gradient">>, 255)
    ELSE Layer("base", <<"new">>, 0)

\* glow_alpha = 90 if variant == "normal" else 140
GlowLayer(v) ==
    Layer("glow", <<"ellipse", "gaussian_blur">>, IF v = "normal" THEN 90 ELSE 140)

PlanetLayer == Layer("planet", <<"ellipse", "ellipse_outline">>, 0)

OrbitLayer == Layer("orbit", <<"arc", "arc", "arc", "arc", "arc", "arc">>, 0)

\* _draw_signal_bars, then _draw_microphone, on the one signal_layer
SignalLayer == Layer("signal", <<"signal_bars", "microphone">>, 0)

\* count = max(6, int(size * 0.04)); four draws per star
StarDraws(size) == 4 * max(6, (size * 4) \div 100)

\* random.seed(42): the stars are drawn from the start of the seeded stream
SeedPosition(before) == 0

SparkleLayer(start) == Layer("sparkle", <<"stars", "gaussian_blur">>, start)

\* Image.effect_noise draws every pixel from the C library's rand(), at least
\* two calls per pixel; nothing in the script seeds or resets that generator
NoiseDraws(size) == 2 * size * size

NoiseLayer(start) == Layer("noise", <<"effect_noise", "point", "merge">>, start)

VignetteLayer == Layer("vignette", <<"ellipse", "gaussian_blur", "composite">>, 0)

RenderBase ==
    /\ pc = "r_base"
    /\ image' = <<BaseCanvas(variant)>>
    /\ pc' = "r_glow"
    /\ UNCHANGED <<selector, variant, cause, disk, as_read, contents, output_dir,
                   dirs, idx, point_size, scale_factor, pixel_size, filename,
                   processed_sizes, renders, files, save_log, c_rand, py_random>>
    /\ UNCHANGED pixel_vars

RenderGlow ==
    /\ pc = "r_glow"
    /\ image' = Append(image, GlowLayer(variant))
    /\ pc' = "r_planet"
    /\ UNCHANGED <<selector, variant, cause, disk, as_read, contents, output_dir,
                   dirs, idx, point_size, scale_factor, pixel_size, filename,
                   processed_sizes, renders, files, save_log, c_rand, py_random>>
    /\ UNCHANGED pixel_vars

\* RenderPlanet without the variant test
RenderPlanetEveryVariant ==
    /\ pc = "r_planet"
    /\ image' = Append(image, PlanetLayer)
    /\ pc' = "r_orbit"
    /\ UNCHANGED <<selector, variant, cause, disk, as_read, contents, output_dir,
                   dirs, idx, point_size, scale_factor, pixel_size, filename,
                   processed_sizes, renders, files, save_log, c_rand, py_random>>
    /\ UNCHANGED pixel_vars

\* if variant == "normal": the planet layer
RenderPlanet ==
    /\ pc = "r_planet"
    /\ image' = IF variant = "normal" THEN Append(image, PlanetLayer) ELSE image
    /\ pc' = "r_orbit"
    /\ UNCHANGED <<selector, variant, cause, disk, as_read, contents, output_dir,
                   dirs, idx, point_size, scale_factor, pixel_size, filename,
                   processed_sizes, renders, files, save_log, c_rand, py_random>>
    /\ UNCHANGED pixel_vars

RenderOrbit ==
    /\ pc = "r_orbit"
    /\ image' = Append(image, OrbitLayer)
    /\ pc' = "r_signal"
    /\ UNCHANGED <<selector, variant, cause, disk, as_read, contents, output_dir,
                   dirs, idx, point_size, scale_factor, pixel_size, filename,
                   processed_sizes, renders, files, save_log, c_rand, py_random>>
    /\ UNCHANGED pixel_vars

RenderSignal ==
    /\ pc = "r_signal"
    /\ image' = Append(image, SignalLayer)
    /\ pc' = "r_sparkle"
    /\ UNCHANGED <<selector, variant, cause, disk, as_read, contents, output_dir,
                   dirs, idx, point_size, scale_factor, pixel_size, filename,
                   processed_sizes, renders, files, save_log, c_rand, py_random>>
    /\ UNCHANGED pixel_vars

RenderSparkle ==
    /\ pc = "r_sparkle"
    /\ image' = Append(image, SparkleLayer(SeedPosition(py_random)))
    /\ py_random' = SeedPosition(py_random) + StarDraws(pixel_size)
    /\ pc' = "r_noise"
    /\ UNCHANGED <<selector, variant, cause, disk, as_read, contents, output_dir,
                   dirs, idx, point_size, scale_factor, pixel_size, filename,
                   processed_sizes, renders, files, save_log, c_rand>>
    /\ UNCHANGED pixel_vars

\* if variant == "normal": noise = _add_noise_overlay(size, intensity=0.06)
RenderNoise ==
    /\ pc = "r_noise"
    /\ IF variant = "normal"
       THEN /\ image' = Append(image, NoiseLayer(c_rand))
            /\ c_rand' = c_rand + NoiseDraws(pixel_size)
       ELSE UNCHANGED <<image, c_rand>>
    /\ pc' = "r_vignette"
    /\ UNCHANGED <<selector, variant, cause, disk, as_read, contents, output_dir,
                   dirs, idx, point_size, scale_factor, pixel_size, filename,
                   processed_sizes, renders, files, save_log, py_random>>
    /\ UNCHANGED pixel_vars

\* if variant == "normal": the vignette; then return base.convert("RGBA")
RenderVignette ==
    /\ pc = "r_vignette"
    /\ image' = IF variant = "normal" THEN Append(image, VignetteLayer) ELSE image
    /\ renders' = Append(renders,
                         [size |-> pixel_size, variant |-> variant, image |-> image'])
    /\ pc' = "save"
    /\ UNCHANGED <<selector, variant, cause, disk, as_read, contents, output_dir,
                   dirs, idx, point_size, scale_factor, pixel_size, filename,
                   processed_sizes, files, save_log, c_rand, py_random>>
    /\ UNCHANGED pixel_vars

-----------------------------------------------------------------------------
(* generate_icons: saving, and the end of the run *)

File(dir, name) == [dir |-> dir, name |-> name]

\* icon_image.save(target_path, format="PNG"), print, next image_entry
SaveIcon ==
    /\ pc = "save"
    /\ files' = files \cup {File(output_dir, filename)}
    /\ save_log' = Append(save_log, filename)
    /\ idx' = idx + 1
    /\ pc' = "loop"
    /\ UNCHANGED <<selector, variant, cause, disk, as_read, contents, output_dir,
                   dirs, point_size, scale_factor, pixel_size, filename,
                   processed_sizes, image, renders, c_rand, py_random>>
    /\ UNCHANGED pixel_vars

\* SaveFails with the exception swallowed: the loop goes on
SaveFailsSwallowed ==
    /\ pc = "save"
    /\ \E left \in BOOLEAN :
          files' = IF left THEN files \cup {File(output_dir, filename)} ELSE files
    /\ idx' = idx + 1
    /\ pc' = "loop"
    /\ UNCHANGED <<selector, variant, cause, disk, as_read, contents, output_dir,
                   dirs, point_size, scale_factor, pixel_size, filename,
                   processed_sizes, image, renders, save_log, c_rand, py_random>>
    /\ UNCHANGED pixel_vars

\* save raises: the exception leaves the loop and generate_icons; the file
\* it was writing may or may not be left behind
SaveFails ==
    /\ pc = "save"
    /\ \E left \in BOOLEAN :
          files' = IF left THEN files \cup {File(output_dir, filename)} ELSE files
    /\ Abort("save")
    /\ UNCHANGED <<selector, variant, disk, as_read, contents, output_dir, dirs, idx,
                   point_size, scale_factor, pixel_size, filename, processed_sizes,
                   image, renders, save_log, c_rand, py_random>>
    /\ UNCHANGED pixel_vars

\* after the loop: "normal" writes the manifest back, any other variant
\* only prints
Finish ==
    /\ pc = "loop"
    /\ idx > Len(Images(contents))
    /\ disk' = IF variant = "normal" THEN json_dump(contents) ELSE disk
    /\ pc' = "done"
    /\ UNCHANGED <<selector, variant, cause, as_read, contents, output_dir, dirs, idx,
                   point_size, scale_factor, pixel_size, filename, processed_sizes,
                   image, renders, files, save_log, c_rand, py_random>>
    /\ UNCHANGED pixel_vars

\* open(CONTENTS_PATH, "w") truncates the file; a failure of open or of
\* json.dump leaves it as it was or cut short
DumpFails ==
    /\ pc = "loop"
    /\ idx > Len(Images(contents))
    /\ variant = "normal"
    /\ \E cut \in BOOLEAN :
          disk' = IF cut THEN [style |-> "truncated", doc |-> <<>>] ELSE disk
    /\ Abort("dump")
    /\ UNCHANGED <<selector, variant, as_read, contents, output_dir, dirs, idx,
                   point_size, scale_factor, pixel_size, filename, processed_sizes,
                   image, renders, files, save_log, c_rand, py_random>>
    /\ UNCHANGED pixel_vars

Next ==
    \/ Main
    \/ LoadContents
    \/ LoadFails
    \/ MakeOutputDir
    \/ MkdirFails
    \/ ResolveSize
    \/ NameFile
    \/ RenderBase
    \/ RenderGlow
    \/ RenderPlanet
    \/ RenderOrbit
    \/ RenderSignal
    \/ RenderSparkle
    \/ RenderNoise
    \/ RenderVignette
    \/ SaveIcon
    \/ SaveFails
    \/ Finish
    \/ DumpFails

Spec == Init /\ [][Next]_vars

-----------------------------------------------------------------------------
(* Compositing two layers onto a base in the stack's order and in the      *)
(* swapped order                                                           *)

InitComposite ==
    /\ selector = NotGiven
    /\ disk = ManifestText(<<>>)
    /\ variant = ""
    /\ pc = "composite"
    /\ cause = ""
    /\ as_read = NothingRead
    /\ contents = <<>>
    /\ output_dir = ""
    /\ dirs = {}
    /\ idx = 0
    /\ point_size = NoFloat
    /\ scale_factor = 0
    /\ pixel_size = 0
    /\ filename = <<>>
    /\ processed_sizes = {}
    /\ image = <<>>
    /\ renders = <<>>
    /\ files = {}
    /\ save_log = <<>>
    /\ c_rand = 0
    /\ py_random = 0
    /\ dst \in BasePixels
    /\ \E i, j \in DOMAIN Stack : i < j /\ pair = <<Stack[i], Stack[j]>>
    /\ src_a \in LayerPixels(pair[1])
    /\ src_b \in LayerPixels(pair[2])
    /\ out_fixed = Transparent
    /\ out_swapped = Transparent
    /\ composited = {}

\* base = Image.alpha_composite(base, layer_a);
\* base = Image.alpha_composite(base, layer_b)
CompositeInOrder ==
    /\ pc = "composite"
    /\ "fixed" \notin composited
    /\ out_fixed' = alpha_composite(alpha_composite(dst, src_a), src_b)
    /\ composited' = composited \cup {"fixed"}
    /\ UNCHANGED <<dst, src_a, src_b, out_swapped, pair>>
    /\ UNCHANGED run_vars

\* the same two calls with the layers exchanged
CompositeSwapped ==
    /\ pc = "composite"
    /\ "swapped" \notin composited
    /\ out_swapped' = alpha_composite(alpha_composite(dst, src_b), src_a)
    /\ composited' = composited \cup {"swapped"}
    /\ UNCHANGED <<dst, src_a, src_b, out_fixed, pair>>
    /\ UNCHANGED run_vars

NextComposite ==
    \/ CompositeInOrder
    \/ CompositeSwapped

SpecComposite == InitComposite /\ [][NextComposite]_vars

-----------------------------------------------------------------------------
(* Properties *)

\* the descriptors the run read, and the pixel size each resolves to
Entries == Images(as_read.doc)
N == Len(Entries)
EntryPixel(e) ==
    PixelSize(ParsePointSize(SizeToken(e)), ParseScaleFactor(ScaleToken(e)).val)
PixelOf(i) == EntryPixel(Entries[i])
PixelSizes == {PixelOf(i) : i \in 1..N}

FilesIn(dir) == {f.name : f \in {g \in files : g.dir = dir}}
Range(seq) == {seq[i] : i \in DOMAIN seq}
NoRepeats(seq) == \A i, j \in DOMAIN seq : seq[i] = seq[j] => i = j

BodyPositions == {"name", "r_base", "r_glow", "r_planet", "r_orbit", "r_signal",
                  "r_sparkle", "r_noise", "r_vignette", "save"}
RenderPositions == BodyPositions \ {"name"}

NormalDone == pc = "done" /\ variant = "normal"

\* C1 as stated: after a Normal run over n descriptors the set of files
\* written into the asset directory has n members
C1_OneFilePerDescriptor ==
    NormalDone => Cardinality(FilesIn(ASSET_DIR)) = N

\* C1 amended: a Normal run renders and saves once per descriptor and
\* annotates every entry with the name it saved, and the set of files written
\* has one member per distinct pixel size among the descriptors
C1_OneSavePerDescriptor ==
    NormalDone =>
        /\ Len(save_log) = N
        /\ Len(renders) = N
        /\ \A i \in 1..N :
              /\ save_log[i] = FileName("normal", PixelOf(i))
              /\ renders[i].size = PixelOf(i)
              /\ Get(Images(contents)[i], "filename", <<>>) = save_log[i]
        /\ FilesIn(ASSET_DIR) = {FileName("normal", p) : p \in PixelSizes}
        /\ Cardinality(FilesIn(ASSET_DIR)) = Cardinality(PixelSizes)

C1_Witness ==
    /\ NormalDone
    /\ N = 2
    /\ PixelOf(1) = PixelOf(2)
    /\ Len(save_log) = 2
    /\ Cardinality(FilesIn(ASSET_DIR)) = 1

\* C2: in a Transparent run no file is rendered or written twice, and after
\* the run the files written are exactly appicon-transparent-<p>.png for the
\* distinct pixel sizes p of the descriptors, each rendered and saved once
C2_TransparentOncePerSize ==
    variant = "transparent" =>
        /\ NoRepeats(save_log)
        /\ NoRepeats([i \in DOMAIN renders |-> renders[i].size])
        /\ pc = "done" =>
              /\ FilesIn(DOCS_DIR) = {FileName("transparent", p) : p \in PixelSizes}
              /\ Range(save_log) = FilesIn(DOCS_DIR)
              /\ {renders[i].size : i \in DOMAIN renders} = PixelSizes
              /\ \A f \in files : f.dir = DOCS_DIR

C2_Witness ==
    /\ pc = "done"
    /\ variant = "transparent"
    /\ N = 2
    /\ PixelOf(1) = PixelOf(2)
    /\ Len(save_log) = 1
    /\ Len(renders) = 1

SameButFilename(new, old) ==
    /\ Keys(new) \ {"filename"} = Keys(old) \ {"filename"}
    /\ \A k \in Keys(old) \ {"filename"} : Get(new, k, <<>>) = Get(old, k, <<>>)

\* C3: the manifest a completed Normal run wrote back reads as the one that
\* was read, entry for entry in the same order, except for "filename"; under
\* the Transparent variant the file and the entries in memory stay as read
C3_ManifestFrame ==
    /\ NormalDone =>
          LET new == json_load(disk)
          IN /\ Len(Images(new)) = N
             /\ \A i \in 1..N : SameButFilename(Images(new)[i], Entries[i])
             /\ Keys(new) = Keys(as_read.doc)
             /\ \A k \in Keys(new) \ {"images"} :
                   Get(new, k, <<>>) = Get(as_read.doc, k, <<>>)
    /\ (variant = "transparent" /\ as_read # NothingRead) =>
          /\ disk = as_read.text
          /\ contents = as_read.doc

C3_Witness ==
    /\ NormalDone
    /\ N = 2
    /\ "filename" \in Keys(Entries[1])
    /\ "filename" \notin Keys(Entries[2])
    /\ Get(Images(json_load(disk))[1], "filename", <<>>)
          # Get(Entries[1], "filename", <<>>)
    /\ "filename" \in Keys(Images(json_load(disk))[2])

Abs(x) == IF x >= 0 THEN x ELSE -x

\* k = max(1, round(n / d)), round being to nearest with ties to even,
\* stated without computing the rounding
IsClampedRound(k, n, d) ==
    \/ k = 1 /\ 2 * n < 3 * d
    \/ /\ k >= 2
       /\ 2 * Abs(k * d - n) <= d
       /\ (2 * Abs(k * d - n) = d => k % 2 = 0)

\* C4: the pixel size used for the file name and handed to render_icon is
\* max(1, round(point_size * scale_factor)), and so at least 1
C4_PixelSizeClamped ==
    /\ pc \in BodyPositions =>
          /\ pixel_size >= 1
          /\ IsClampedRound(pixel_size, point_size.num * scale_factor, point_size.den)
    /\ pc \in RenderPositions => filename = FileName(variant, pixel_size)
    /\ \A i \in DOMAIN renders : renders[i].size >= 1

C4_Witness ==
    /\ pc = "save"
    /\ point_size.num * scale_factor < 0
    /\ pixel_size = 1
    /\ renders[Len(renders)].size = 1

\* C5: a size or scale token that does not parse never stops the run: the
\* default takes its place (point size 0.0, hence pixel size 1; scale
\* factor 1), and a run that ends has written the file of every entry
C5_MalformedTokenDegrades ==
    /\ cause # "parse"
    /\ pc \in BodyPositions =>
          LET image_entry == Images(contents)[idx]
          IN /\ float(SizeToken(image_entry)).err =>
                   point_size = Finite(0, 1) /\ pixel_size = 1
             /\ int(ScaleToken(image_entry)).err => scale_factor = 1
    /\ pc = "done" =>
          \A i \in 1..N : File(output_dir, FileName(variant, PixelOf(i))) \in files

C5_Witness ==
    /\ pc = "done"
    /\ N = 2
    /\ float(SizeToken(Entries[1])).err
    /\ ~ float(SizeToken(Entries[2])).err
    /\ Len(save_log) = 2
    /\ save_log[1] = FileName(variant, 1)
    /\ save_log[2] # save_log[1]

\* C6 as stated: any two images render_icon returned for the same
\* (pixel_size, variant) are the same
C6_RenderDeterministic ==
    \A i, j \in DOMAIN renders :
        (renders[i].size = renders[j].size /\ renders[i].variant = renders[j].variant)
            => renders[i].image = renders[j].image

\* C7: with a --variant value other than "normal" and "transparent" the run
\* ends in argparse: nothing is rendered, written or created
C7_UnsupportedVariantRejected ==
    selector \notin {NotGiven, "normal", "transparent"} =>
        /\ pc \in {"main", "exit"}
        /\ pc = "exit" => cause = "argparse"
        /\ image = <<>>
        /\ renders = <<>>
        /\ files = {}
        /\ save_log = <<>>
        /\ dirs = {}

C7_Witness ==
    /\ pc = "exit"
    /\ selector = "template"
    /\ dirs = {}

LayerNames(img) == [i \in DOMAIN img |-> img[i].layer]

IsPrefix(a, b) == Len(a) <= Len(b) /\ a = SubSeq(b, 1, Len(a))

NormalOrder ==
    <<"base", "glow", "planet", "orbit", "signal", "sparkle", "noise", "vignette">>

TransparentOrder == <<"base", "glow", "orbit", "signal", "sparkle">>

OrderOf(v) == IF v = "normal" THEN NormalOrder ELSE TransparentOrder

\* C8: render_icon composites in one order: gradient-filled base, glow,
\* planet, orbit, signal bars + microphone, sparkle, noise, vignette for
\* Normal; for Transparent only glow, orbit, signal bars + microphone and
\* sparkle, on a fully transparent base without gradient
C8_FixedLayerOrder ==
    /\ pc \in RenderPositions \ {"r_base"} =>
          IsPrefix(LayerNames(image), OrderOf(variant))
    /\ \A i \in DOMAIN renders :
          LET img == renders[i].image
          IN /\ LayerNames(img) = OrderOf(renders[i].variant)
             /\ img[1] = IF renders[i].variant = "normal"
                         THEN Layer("base", <<"new", "vertical_gradient">>, 255)
                         ELSE Layer("base", <<"new">>, 0)
             /\ \E k \in DOMAIN img :
                   img[k] = Layer("signal", <<"signal_bars", "microphone">>, 0)

C8_Witness ==
    /\ Len(renders) = 1
    /\ renders[1].variant = "normal"
    /\ Len(renders[1].image) = 8
    /\ pc = "r_sparkle"
    /\ LayerNames(image) = <<"base", "glow", "planet", "orbit", "signal">>

BothOrders == composited = {"fixed", "swapped"}

MovesChannel(t, o) ==
    \/ 2 * t.a * Abs(t.r - o.r) > 255
    \/ 2 * t.a * Abs(t.g - o.g) > 255
    \/ 2 * t.a * Abs(t.b - o.b) > 255

C10_AbortOnFirstSaveFailure ==
    /\ (pc = "aborted" /\ cause = "save") =>
          /\ Len(renders) = Len(save_log) + 1
          /\ disk = as_read.text
          /\ \A i \in DOMAIN save_log : File(output_dir, save_log[i]) \in files
          /\ variant = "normal" =>
                /\ Len(save_log) = idx - 1
                /\ \A i \in 1..N :
                      IF i <= idx
                      THEN Get(Images(contents)[i], "filename", <<>>)
                              = FileName("normal", PixelOf(i))
                      ELSE Images(contents)[i] = Entries[i]
    /\ (as_read # NothingRead /\ disk # as_read.text /\ cause # "dump") =>
          /\ NormalDone
          /\ Len(save_log) = N
          /\ Len(renders) = N

C10_Witness ==
    /\ pc = "aborted"
    /\ cause = "save"
    /\ variant = "normal"
    /\ N = 2
    /\ idx = 2
    /\ Len(save_log) = 1
    /\ "filename" \in Keys(Images(contents)[2])
    /\ disk = as_read.text

=============================================================================
